---- MODULE Spec2Model ----
(***************************************************************************)
(* Model of the Telegram Bot API proxy worker (handleRequest and its       *)
(* helpers corsHeaders and filterHeaders) and of the deployment scripts     *)
(* that establish the worker's ALLOWED_TOKENS binding.                      *)
(*                                                                         *)
(* Strings are TLA+ strings; characters are one-character substrings.      *)
(* An optional value (null / undefined) is the empty tuple <<>>, a present *)
(* value v is the one-element tuple <<v>>.  A Headers object is a function *)
(* from lower-case header names to values, as the Fetch Headers class      *)
(* normalises names and combines repeated names.                           *)
(***************************************************************************)
EXTENDS Integers, Sequences, FiniteSets, TLC

VARIABLES
  env,        \* the worker's bindings (env.ALLOWED_TOKENS present or not)
  pc,         \* per handler invocation: "idle", "awaiting" (fetch pending), "done"
  request,    \* per invocation: the inbound request
  url,        \* per invocation: the handler's parsed URL (pathname, search)
  outbound,   \* per invocation: the Request handed to fetch, <<>> if none
  settled,    \* per invocation: how the fetch promise settled, <<>> if not yet
  calls,      \* per invocation: number of fetch calls made
  outcome,    \* per invocation: which return statement produced the response
  response,   \* per invocation: the Response returned, <<>> if none
  processEnv,       \* the Railway script's process.env
  mainPc,           \* where main() of the Railway script stands
  server,           \* the status server: "none", "starting", "listening"
  deploymentStatus, \* the script's module-level deploymentStatus object
  upload,           \* the worker upload: its request and the reply, <<>> if none
  subdomain,        \* deployWorker's local subdomain, <<>> if null or undefined
  page              \* the status page last served, <<>> if none

workerVars == <<env, pc, request, url, outbound, settled, calls, outcome, response>>

deployVars == <<processEnv, mainPc, server, deploymentStatus, upload, subdomain, page>>

vars == <<workerVars, deployVars>>

(***************************************************************************)
(* Bounds                                                                  *)
(***************************************************************************)
MaxHeaders == 2   \* header lines of an inbound request

(***************************************************************************)
(* String helpers (String.prototype methods used by the handler)           *)
(***************************************************************************)
CharAt(s, i) == SubSeq(s, i, i)

UpperChars == "ABCDEFGHIJKLMNOPQRSTUVWXYZ"

LowerChars == "abcdefghijklmnopqrstuvwxyz"

\* the lower-case form of each upper-case ASCII letter
LowerOf ==
  [c \in {CharAt(UpperChars, i) : i \in 1..Len(UpperChars)} |->
     CharAt(LowerChars, CHOOSE i \in 1..Len(UpperChars) : CharAt(UpperChars, i) = c)]

LowerChar(c) == IF c \in DOMAIN LowerOf THEN LowerOf[c] ELSE c

\* s.toLowerCase(), character by character (the string is split in halves
\* to keep the recursion shallow)
RECURSIVE ToLowerCase(_)
ToLowerCase(s) ==
  IF Len(s) = 0 THEN ""
  ELSE IF Len(s) = 1 THEN LowerChar(s)
  ELSE ToLowerCase(SubSeq(s, 1, Len(s) \div 2))
       \o ToLowerCase(SubSeq(s, Len(s) \div 2 + 1, Len(s)))

StartsWith(s, prefix) ==
  /\ Len(s) >= Len(prefix)
  /\ SubSeq(s, 1, Len(prefix)) = prefix

WhiteSpace == {" ", "\t", "\n", "\r"}

\* s.trim(): from the first to the last character that is not white space
Trim(s) ==
  LET solid == {i \in 1..Len(s) : CharAt(s, i) \notin WhiteSpace}
  IN IF solid = {} THEN ""
     ELSE SubSeq(s, CHOOSE i \in solid : \A j \in solid : i <= j,
                    CHOOSE i \in solid : \A j \in solid : i >= j)

\* index of the first occurrence of character c in s at or after i, 0 if none
IndexOfFrom(s, c, i) ==
  LET hits == {k \in i..Len(s) : CharAt(s, k) = c}
  IN IF hits = {} THEN 0 ELSE CHOOSE k \in hits : \A j \in hits : k <= j

\* s.split(sep) for a one-character separator
RECURSIVE Split(_, _)
Split(s, sep) ==
  LET k == IndexOfFrom(s, sep, 1)
  IN IF k = 0 THEN <<s>>
     ELSE <<SubSeq(s, 1, k - 1)>> \o Split(SubSeq(s, k + 1, Len(s)), sep)

\* array.includes(x)
Includes(arr, x) == \E i \in 1..Len(arr) : arr[i] = x

\* array.map(t => t.trim())
MapTrim(arr) == [i \in 1..Len(arr) |-> Trim(arr[i])]

(***************************************************************************)
(* JSON.stringify of an object whose values are strings.  The object is    *)
(* the sequence of its <<key, value>> entries in insertion order.          *)
(***************************************************************************)
EscapeChar(c) ==
  IF c = "\"" THEN "\\\""
  ELSE IF c = "\\" THEN "\\\\"
  ELSE IF c = "\n" THEN "\\n"
  ELSE c

\* every character escaped (the string is split in halves to keep the
\* recursion shallow)
RECURSIVE JSONEscape(_)
JSONEscape(s) ==
  IF Len(s) = 0 THEN ""
  ELSE IF Len(s) = 1 THEN EscapeChar(s)
  ELSE JSONEscape(SubSeq(s, 1, Len(s) \div 2))
       \o JSONEscape(SubSeq(s, Len(s) \div 2 + 1, Len(s)))

JSONQuote(s) == "\"" \o JSONEscape(s) \o "\""

RECURSIVE JSONMembers(_)
JSONMembers(entries) ==
  IF entries = <<>> THEN ""
  ELSE JSONQuote(entries[1][1]) \o ":" \o JSONQuote(entries[1][2])
       \o (IF Len(entries) > 1 THEN "," ELSE "")
       \o JSONMembers(Tail(entries))

JSONStringify(entries) == "{" \o JSONMembers(entries) \o "}"

(***************************************************************************)
(* The Fetch API classes the handler uses: URL, Headers, Request, Response *)
(***************************************************************************)
\* new URL(u): pathname and search of an absolute http(s) URL
SchemeEnd(u) == IndexOfFrom(u, "/", 1) + 1   \* second slash of "scheme://"

URLPathStart(u) == IndexOfFrom(u, "/", SchemeEnd(u) + 1)

URLQueryStart(u) == IndexOfFrom(u, "?", SchemeEnd(u) + 1)

URLPathname(u) ==
  LET p == URLPathStart(u)
      q == URLQueryStart(u)
  IN IF p = 0 \/ (q # 0 /\ q < p) THEN "/"
     ELSE SubSeq(u, p, IF q = 0 THEN Len(u) ELSE q - 1)

URLSearch(u) ==
  LET q == URLQueryStart(u)
  IN IF q = 0 \/ q = Len(u) THEN "" ELSE SubSeq(u, q, Len(u))

EmptyHeaders == [n \in {} |-> ""]

\* Headers.prototype.append: names are lower-cased, repeated names combined
HeadersAppend(h, name, value) ==
  LET n == ToLowerCase(name)
  IN IF n \in DOMAIN h
     THEN [h EXCEPT ![n] = @ \o ", " \o value]
     ELSE [k \in DOMAIN h \cup {n} |-> IF k = n THEN value ELSE h[k]]

\* Headers.prototype.set: names are lower-cased, an existing value is replaced
HeadersSet(h, name, value) ==
  LET n == ToLowerCase(name)
  IN [k \in DOMAIN h \cup {n} |-> IF k = n THEN value ELSE h[k]]

\* new Headers(init) for a list of <<name, value>> entries
RECURSIVE HeadersFrom(_, _)
HeadersFrom(h, entries) ==
  IF entries = <<>> THEN h
  ELSE HeadersFrom(HeadersAppend(h, entries[1][1], entries[1][2]), Tail(entries))

NewHeaders(entries) == HeadersFrom(EmptyHeaders, entries)

\* statuses the Response constructor accepts (RangeError otherwise)
ResponseStatusMin == 200

ResponseStatusMax == 599

RangeErrorMessage ==
  "Responses may only be constructed with status codes in the range 200 to 599, inclusive."

ResponseCtorThrows(status) == status < ResponseStatusMin \/ status > ResponseStatusMax

\* new Response(body, {status, statusText, headers}); status defaults to 200
NewResponse(body, status, statusText, headers) ==
  [status |-> status, statusText |-> statusText, headers |-> headers, body |-> body]

DefaultStatus == 200

(***************************************************************************)
(* The worker: corsHeaders, filterHeaders and the checks of handleRequest  *)
(***************************************************************************)
corsHeaders ==
  << <<"Access-Control-Allow-Origin", "*">>,
     <<"Access-Control-Allow-Methods", "GET, POST, PUT, DELETE, OPTIONS">>,
     <<"Access-Control-Allow-Headers", "Content-Type, Authorization">>,
     <<"Access-Control-Max-Age", "86400">> >>

allowedHeaders == <<"content-type", "accept", "accept-language", "content-length">>

\* filterHeaders that drops only the authorization header
filterHeaders_DenyList(headers) ==
  [n \in DOMAIN headers \ {"authorization"} |-> headers[n]]

\* filterHeaders(headers): iterate the entries, keep the allowed names
filterHeaders(headers) ==
  LET kept == {key \in DOMAIN headers : Includes(allowedHeaders, ToLowerCase(key))}
  IN [n \in {ToLowerCase(key) : key \in kept} |->
        headers[CHOOSE key \in kept : ToLowerCase(key) = n]]

\* request.method === 'OPTIONS'
IsPreflight(method) == method = "OPTIONS"

\* the health probe on the root path only
IsHealthPath_RootOnly(pathname) == pathname = "/"

\* url.pathname === '/' || url.pathname === '/health'
IsHealthPath(pathname) == pathname = "/" \/ pathname = "/health"

\* the prefix check one character short
HasBotPrefix_Short(pathname) == StartsWith(pathname, "/bo")

\* url.pathname.startsWith('/bot')
HasBotPrefix(pathname) == StartsWith(pathname, "/bot")

\* the check as env.ALLOWED_TOKENS !== undefined
AllowlistConfigured_Defined(e) == "ALLOWED_TOKENS" \in DOMAIN e

\* if (env.ALLOWED_TOKENS): the binding exists and is a non-empty string
AllowlistConfigured(e) ==
  /\ "ALLOWED_TOKENS" \in DOMAIN e
  /\ e["ALLOWED_TOKENS"] # ""

\* url.pathname.match(/^\/bot([^/]+)/): <<>> for null, <<token>> for a match
TokenMatch(pathname) ==
  LET slash == IndexOfFrom(pathname, "/", 5)
      last  == IF slash = 0 THEN Len(pathname) ELSE slash - 1
  IN IF StartsWith(pathname, "/bot") /\ last >= 5
     THEN <<SubSeq(pathname, 5, last)>>
     ELSE <<>>

\* the entries without the trim
AllowedTokens_Untrimmed(e) == Split(e["ALLOWED_TOKENS"], ",")

\* env.ALLOWED_TOKENS.split(',').map(t => t.trim())
AllowedTokens(e) == MapTrim(Split(e["ALLOWED_TOKENS"], ","))

\* the allowlist block returns the 403 response
TokenForbidden(e, pathname) ==
  /\ AllowlistConfigured(e)
  /\ TokenMatch(pathname) # <<>>
  /\ ~Includes(AllowedTokens(e), TokenMatch(pathname)[1])

\* the checks with the health probe ahead of the preflight
Route_HealthFirst(e, method, pathname) ==
     IF IsHealthPath(pathname) THEN "health"
     ELSE IF IsPreflight(method) THEN "preflight"
     ELSE IF ~HasBotPrefix(pathname) THEN "path-invalid"
     ELSE IF TokenForbidden(e, pathname) THEN "forbidden"
     ELSE "dispatch"

\* the checks with the path-shape check ahead of the health probe
Route_PathShapeFirst(e, method, pathname) ==
     IF IsPreflight(method) THEN "preflight"
     ELSE IF ~HasBotPrefix(pathname) THEN "path-invalid"
     ELSE IF IsHealthPath(pathname) THEN "health"
     ELSE IF TokenForbidden(e, pathname) THEN "forbidden"
     ELSE "dispatch"

\* the ordered checks of handleRequest up to the try block
Route(e, method, pathname) ==
     IF IsPreflight(method) THEN "preflight"
     ELSE IF IsHealthPath(pathname) THEN "health"
     ELSE IF ~HasBotPrefix(pathname) THEN "path-invalid"
     ELSE IF TokenForbidden(e, pathname) THEN "forbidden"
     ELSE "dispatch"

\* headers: {'Content-Type': 'application/json', ...corsHeaders()}
JsonHeaders == NewHeaders(<<<<"Content-Type", "application/json">>>> \o corsHeaders)

PreflightResponse == NewResponse(<<>>, DefaultStatus, "", NewHeaders(corsHeaders))

HealthResponse ==
  NewResponse(
    <<JSONStringify(<< <<"status", "ok">>,
                       <<"service", "telegram-api-proxy">>,
                       <<"usage", "Replace api.telegram.org with this worker URL">> >>)>>,
    DefaultStatus, "", JsonHeaders)

PathInvalidResponse ==
  NewResponse(
    <<JSONStringify(<< <<"error", "Invalid path. Expected /bot<token>/<method>">>,
                       <<"example", "/botYOUR_TOKEN/sendMessage">> >>)>>,
    400, "", JsonHeaders)

ForbiddenResponse ==
  NewResponse(<<JSONStringify(<< <<"error", "Token not in allowlist">> >>)>>,
              403, "", JsonHeaders)

\* the catch block: error.message goes into the 502 body
UpstreamErrorResponse(message) ==
  NewResponse(
    <<JSONStringify(<< <<"error", "Failed to proxy request to Telegram">>,
                       <<"message", message>> >>)>>,
    502, "", JsonHeaders)

TelegramOrigin == "https://api.telegram.org"

\* new URL(request.url)
NewURL(u) == [pathname |-> URLPathname(u), search |-> URLSearch(u)]

\* the outbound request with request.body passed for every method
TelegramRequest_BodyAlways(req, u) ==
  [url     |-> TelegramOrigin \o u.pathname \o u.search,
   method  |-> req.method,
   headers |-> filterHeaders(NewHeaders(req.headers)),
   body    |-> req.body]

\* new Request(telegramUrl, {method, headers: filterHeaders(...), body})
TelegramRequest(req, u) ==
  [url     |-> TelegramOrigin \o u.pathname \o u.search,
   method  |-> req.method,
   headers |-> filterHeaders(NewHeaders(req.headers)),
   body    |-> IF req.method # "GET" /\ req.method # "HEAD" THEN req.body ELSE <<>>]

\* responseHeaders: copy of the upstream headers, then every CORS header set
RECURSIVE SetAll(_, _)
SetAll(h, entries) ==
  IF entries = <<>> THEN h
  ELSE SetAll(HeadersSet(h, entries[1][1], entries[1][2]), Tail(entries))

\* the CORS headers appended to the upstream's instead of set
RECURSIVE AppendAll(_, _)
AppendAll(h, entries) ==
  IF entries = <<>> THEN h
  ELSE AppendAll(HeadersAppend(h, entries[1][1], entries[1][2]), Tail(entries))

RelayHeaders_Appended(upstreamHeaders) == AppendAll(upstreamHeaders, corsHeaders)

RelayHeaders(upstreamHeaders) == SetAll(upstreamHeaders, corsHeaders)

\* the catch block's response for the Response constructor's RangeError
RangeErrorResponse == UpstreamErrorResponse(RangeErrorMessage)

\* Relay that leaves status and statusText out of the Response init
Relay_StatusDropped(up) ==
  IF ResponseCtorThrows(up.status)
  THEN [outcome |-> "upstream-error", response |-> RangeErrorResponse]
  ELSE [outcome  |-> "relay",
        response |-> NewResponse(up.body, DefaultStatus, "",
                                 SetAll(NewHeaders(up.headers), corsHeaders))]

\* Relay with the Response construction outside the try block
Relay_Uncaught(up) ==
  IF ResponseCtorThrows(up.status)
  THEN [outcome |-> "unhandled", response |-> <<>>]
  ELSE [outcome  |-> "relay",
        response |-> NewResponse(up.body, up.status, up.statusText,
                                 SetAll(NewHeaders(up.headers), corsHeaders))]

\* the try block after fetch resolved with upstream response up: the relayed
\* Response, or the catch block's 502 when the Response constructor throws
Relay(up) ==
  IF ResponseCtorThrows(up.status)
  THEN [outcome |-> "upstream-error", response |-> RangeErrorResponse]
  ELSE [outcome  |-> "relay",
        response |-> NewResponse(up.body, up.status, up.statusText,
                                 RelayHeaders(NewHeaders(up.headers)))]

\* a catch block that reports a fixed text instead of error.message
Caught_FixedText(message) ==
  [outcome |-> "upstream-error", response |-> UpstreamErrorResponse("Internal error")]

\* the catch block after fetch rejected with an error
Caught(message) ==
  [outcome |-> "upstream-error", response |-> UpstreamErrorResponse(message)]

(***************************************************************************)
(* The deployment scripts: how env.ALLOWED_TOKENS comes to exist           *)
(***************************************************************************)
\* scripts/deploy.js and scripts/railway-deploy.js: the binding is added only
\* when process.env.ALLOWED_TOKENS || '' is a non-empty string
DeployBindings(setting) ==
  LET allowedTokens == IF setting = <<>> THEN "" ELSE setting[1]
  IN IF allowedTokens # ""
     THEN [n \in {"ALLOWED_TOKENS"} |-> allowedTokens]
     ELSE [n \in {} |-> ""]

\* README: npx wrangler secret put ALLOWED_TOKENS binds the entered text as is
SecretBinding(text) == [n \in {"ALLOWED_TOKENS"} |-> text]

(***************************************************************************)
(* The Railway startup script (scripts/railway-deploy.js)                  *)
(***************************************************************************)
\* the upper-case form of each lower-case ASCII letter
UpperOf ==
  [c \in {CharAt(LowerChars, i) : i \in 1..Len(LowerChars)} |->
     CharAt(UpperChars, CHOOSE i \in 1..Len(LowerChars) : CharAt(LowerChars, i) = c)]

UpperChar(c) == IF c \in DOMAIN UpperOf THEN UpperOf[c] ELSE c

\* s.toUpperCase()
RECURSIVE ToUpperCase(_)
ToUpperCase(s) ==
  IF Len(s) = 0 THEN ""
  ELSE IF Len(s) = 1 THEN UpperChar(s)
  ELSE ToUpperCase(SubSeq(s, 1, Len(s) \div 2))
       \o ToUpperCase(SubSeq(s, Len(s) \div 2 + 1, Len(s)))

\* s.includes(part)
IncludesText(s, part) ==
  \E i \in 1..(Len(s) - Len(part) + 1) : SubSeq(s, i, i + Len(part) - 1) = part

\* text.substring(0, n)
Substring0(text, n) == SubSeq(text, 1, IF Len(text) < n THEN Len(text) ELSE n)

\* an optional string is truthy when it is present and not empty
Truthy(opt) == opt # <<>> /\ opt[1] # ""

\* let deploymentStatus = {status: 'pending', workerUrl: null, error: null, timestamp}
\* (the timestamp is the number of the assignment that wrote the object)
PendingStatus ==
  [status |-> "pending", workerUrl |-> <<>>, error |-> <<>>, timestamp |-> 0]

\* reply bodies of the Cloudflare API
UploadOkText == "{\"success\":true,\"errors\":[]}"

UploadDeniedText == "{\"success\":false,\"errors\":[{\"code\":10000}]}"

GatewayText == "<html>502 Bad Gateway</html>"

SubdomainText == "{\"success\":true,\"result\":{\"subdomain\":\"acme\"}}"

NoSubdomainText == "{\"success\":true,\"result\":null}"

\* JSON.parse on the reply bodies above: <<>> when it throws, otherwise the
\* members the script reads (success, JSON.stringify(errors), result?.subdomain)
JSONParse(text) ==
  CASE text = UploadOkText ->
         <<[success |-> TRUE, errors |-> "[]", subdomain |-> <<>>]>>
    [] text = UploadDeniedText ->
         <<[success |-> FALSE, errors |-> "[{\"code\":10000}]", subdomain |-> <<>>]>>
    [] text = SubdomainText ->
         <<[success |-> TRUE, errors |-> "undefined", subdomain |-> <<"acme">>]>>
    [] text = NoSubdomainText ->
         <<[success |-> TRUE, errors |-> "undefined", subdomain |-> <<>>]>>
    [] OTHER -> <<>>

\* safeJsonParse(response, context): the parsed value, or the message of the
\* Error it throws
safeJsonParse(text, context) ==
  IF JSONParse(text) # <<>>
  THEN [threw |-> FALSE, value |-> JSONParse(text)[1]]
  ELSE [threw |-> TRUE,
        message |-> "Invalid JSON response from " \o context \o ": "
                      \o Substring0(text, 100)]

MissingCredentialsMessage ==
  "Missing CLOUDFLARE_API_TOKEN or CLOUDFLARE_ACCOUNT_ID. "
    \o "Set these in your Railway service variables."

\* if (!apiToken || !accountId)
CredentialsMissing(pe) ==
  ~Truthy(pe.CLOUDFLARE_API_TOKEN) \/ ~Truthy(pe.CLOUDFLARE_ACCOUNT_ID)

\* process.env.WORKER_NAME || 'telegram-api-proxy'
WorkerName(pe) ==
  IF Truthy(pe.WORKER_NAME) THEN pe.WORKER_NAME[1] ELSE "telegram-api-proxy"

\* an upload whose result is never tested
UploadFailed_Unchecked(result) == FALSE

\* if (!result.success)
UploadFailed(result) == ~result.success

\* the value deployWorker returns
WorkerUrl(pe, sub) ==
  IF Truthy(sub)
  THEN "https://" \o WorkerName(pe) \o "." \o sub[1] \o ".workers.dev"
  ELSE "Check Cloudflare dashboard: https://dash.cloudflare.com/"
         \o pe.CLOUDFLARE_ACCOUNT_ID[1] \o "/workers/services/view/" \o WorkerName(pe)

\* what the status server's handler writes for the deploymentStatus ds
StatusPage(ds) ==
  LET isWorkerUrl == Truthy(ds.workerUrl) /\ IncludesText(ds.workerUrl[1], ".workers.dev")
  IN [class     |-> IF ds.status = "success" THEN "success"
                    ELSE IF ds.status = "error" THEN "error" ELSE "pending",
      status    |-> ToUpperCase(ds.status),
      workerUrl |-> IF Truthy(ds.workerUrl) THEN ds.workerUrl ELSE <<>>,
      link      |-> IF isWorkerUrl THEN ds.workerUrl ELSE <<>>,
      error     |-> IF Truthy(ds.error) THEN ds.error ELSE <<>>,
      usage     |-> isWorkerUrl,
      troubleshooting |-> ds.status = "error",
      timestamp |-> ds.timestamp]

\* the script's variables once the module is loaded, before main() runs
ScriptLoaded(pe) ==
  /\ processEnv = pe
  /\ mainPc = "main"
  /\ server = "none"
  /\ deploymentStatus = PendingStatus
  /\ upload = <<>>
  /\ subdomain = <<>>
  /\ page = <<>>

\* a process.env with none of the script's variables set
BareProcessEnv ==
  [CLOUDFLARE_API_TOKEN |-> <<>>, CLOUDFLARE_ACCOUNT_ID |-> <<>>,
   WORKER_NAME |-> <<>>, ALLOWED_TOKENS |-> <<>>]

(***************************************************************************)
(* Inputs                                                                  *)
(***************************************************************************)
ProcessEnvSettings ==
  {<<>>, <<"">>, <<"T1,T2">>, <<" T1 ,\tT2 ">>, <<"t1">>, <<" ">>}

SecretTexts == {"", "T1"}

Envs ==
  {DeployBindings(st) : st \in ProcessEnvSettings} \cup {SecretBinding(t) : t \in SecretTexts}

WorkerOrigin == "https://w.dev"

Methods == {"OPTIONS", "GET", "HEAD", "POST", "DELETE"}

Paths ==
  {"/", "/health", "/x", "/bo", "/bot", "/bots", "/botT1", "/bot/sendMessage",
   "/botT1/getMe", "/botT2/getMe", "/botT3/sendMessage", "/bott1/getMe",
   "/botANY/sendMessage", "/botT1/"}

Searches == {"", "?", "?offset=1"}

Bodies == {<<>>, <<"{\"chat_id\":1}">>}

HeaderPool ==
  << <<"Content-Type", "application/json">>,
     <<"Authorization", "Bearer s3cret">>,
     <<"x-foo", "1">>,
     <<"ACCEPT", "*/*">>,
     <<"accept", "text/html">>,
     <<"Accept-Language", "en">>,
     <<"content-length", "13">> >>

\* the header lines picked by the index set S, in pool order
RECURSIVE PickHeaders(_, _)
PickHeaders(S, i) ==
  IF i > Len(HeaderPool) THEN <<>>
  ELSE (IF i \in S THEN <<HeaderPool[i]>> ELSE <<>>) \o PickHeaders(S, i + 1)

HeaderLists ==
  {PickHeaders(S, 1) : S \in {T \in SUBSET (1..Len(HeaderPool)) : Cardinality(T) <= MaxHeaders}}

InboundRequests ==
  {[url |-> WorkerOrigin \o p \o q, method |-> m, headers |-> h, body |-> b] :
     p \in Paths, q \in Searches, m \in Methods, h \in HeaderLists, b \in Bodies}

UpstreamResponses ==
  {[status |-> 200, statusText |-> "OK",
    headers |-> << <<"Content-Type", "application/json">> >>,
    body |-> <<"{\"ok\":true}">>],
   [status |-> 404, statusText |-> "Not Found",
    headers |-> << <<"Content-Type", "application/json">>,
                   <<"Access-Control-Allow-Origin", "https://example.org">>,
                   <<"X-Upstream", "tg">> >>,
    body |-> <<"{\"ok\":false,\"error_code\":404}">>],
   [status |-> 999, statusText |-> "", headers |-> <<>>, body |-> <<"denied">>]}

FetchErrors == {"Network connection lost.", "connect \"api.telegram.org\" failed"}

(***************************************************************************)
(* The state machine: one handler invocation per id                        *)
(***************************************************************************)
SingleInvocation == {1}

Init ==
  /\ env \in Envs
  /\ pc = [r \in SingleInvocation |-> "idle"]
  /\ request = [r \in SingleInvocation |-> <<>>]
  /\ url = [r \in SingleInvocation |-> <<>>]
  /\ outbound = [r \in SingleInvocation |-> <<>>]
  /\ settled = [r \in SingleInvocation |-> <<>>]
  /\ calls = [r \in SingleInvocation |-> 0]
  /\ outcome = [r \in SingleInvocation |-> "none"]
  /\ response = [r \in SingleInvocation |-> <<>>]
  /\ ScriptLoaded(BareProcessEnv)

\* the value of handleRequest's synchronous part for a route other than dispatch
EarlyResponse(route) ==
  CASE route = "preflight"    -> PreflightResponse
    [] route = "health"       -> HealthResponse
    [] route = "path-invalid" -> PathInvalidResponse
    [] route = "forbidden"    -> ForbiddenResponse

\* handleRequest(request, env) from its entry to its first return or to the
\* await on fetch, for an inbound request out of the given catalogue
Handle(r, catalogue) ==
  /\ pc[r] = "idle"
  /\ \E req \in catalogue :
       \E u \in {NewURL(req.url)} :
       \E route \in {Route(env, req.method, u.pathname)} :
          /\ request' = [request EXCEPT ![r] = req]
          /\ url' = [url EXCEPT ![r] = <<u>>]
          /\ IF route = "dispatch"
             THEN /\ pc' = [pc EXCEPT ![r] = "awaiting"]
                  /\ outbound' = [outbound EXCEPT ![r] = <<TelegramRequest(req, u)>>]
                  /\ calls' = [calls EXCEPT ![r] = @ + 1]
                  /\ UNCHANGED <<outcome, response>>
             ELSE /\ pc' = [pc EXCEPT ![r] = "done"]
                  /\ outcome' = [outcome EXCEPT ![r] = route]
                  /\ response' = [response EXCEPT ![r] = <<EarlyResponse(route)>>]
                  /\ UNCHANGED <<outbound, calls>>
  /\ UNCHANGED <<env, settled>>
  /\ UNCHANGED deployVars

HandleRequest(r) == Handle(r, InboundRequests)

\* a handler that answers from a module-level cache: the response another
\* invocation has already relayed for the same upstream URL
FetchResolves_Cached(r) ==
  /\ pc[r] = "awaiting"
  /\ \E up \in UpstreamResponses :
       \E res \in {Relay(up)} :
          LET hits == {q \in DOMAIN pc : /\ q # r
                                        /\ outcome[q] = "relay"
                                        /\ outbound[q][1].url = outbound[r][1].url}
          IN /\ settled' = [settled EXCEPT ![r] = <<[kind |-> "response", value |-> up]>>]
             /\ outcome' = [outcome EXCEPT ![r] = res.outcome]
             /\ response' = [response EXCEPT ![r] =
                               IF hits # {} THEN response[CHOOSE q \in hits : TRUE]
                               ELSE <<res.response>>]
  /\ pc' = [pc EXCEPT ![r] = "done"]
  /\ UNCHANGED <<env, request, url, outbound, calls>>
  /\ UNCHANGED deployVars

\* fetch resolves with an upstream response; the handler builds the relayed
\* response (or lands in the catch block) and returns
FetchResolves(r) ==
  /\ pc[r] = "awaiting"
  /\ \E up \in UpstreamResponses :
       \E res \in {Relay(up)} :
          /\ settled' = [settled EXCEPT ![r] = <<[kind |-> "response", value |-> up]>>]
          /\ outcome' = [outcome EXCEPT ![r] = res.outcome]
          /\ response' = [response EXCEPT ![r] = IF res.outcome = "unhandled"
                                                   THEN <<>> ELSE <<res.response>>]
  /\ pc' = [pc EXCEPT ![r] = "done"]
  /\ UNCHANGED <<env, request, url, outbound, calls>>
  /\ UNCHANGED deployVars

\* a catch block that calls fetch a second time after the first rejection
FetchRejects_Retry(r) ==
  /\ pc[r] = "awaiting"
  /\ \E message \in FetchErrors :
       \E res \in {Caught(message)} :
          /\ settled' = [settled EXCEPT ![r] = <<[kind |-> "error", message |-> message]>>]
          /\ IF calls[r] < 2
             THEN /\ calls' = [calls EXCEPT ![r] = @ + 1]
                  /\ UNCHANGED <<pc, outcome, response>>
             ELSE /\ pc' = [pc EXCEPT ![r] = "done"]
                  /\ outcome' = [outcome EXCEPT ![r] = res.outcome]
                  /\ response' = [response EXCEPT ![r] = <<res.response>>]
                  /\ UNCHANGED calls
  /\ UNCHANGED <<env, request, url, outbound>>
  /\ UNCHANGED deployVars

\* fetch rejects; the catch block returns the 502 response
FetchRejects(r) ==
  /\ pc[r] = "awaiting"
  /\ \E message \in FetchErrors :
       \E res \in {Caught(message)} :
          /\ settled' = [settled EXCEPT ![r] = <<[kind |-> "error", message |-> message]>>]
          /\ outcome' = [outcome EXCEPT ![r] = res.outcome]
          /\ response' = [response EXCEPT ![r] = IF res.outcome = "unhandled"
                                                   THEN <<>> ELSE <<res.response>>]
  /\ pc' = [pc EXCEPT ![r] = "done"]
  /\ UNCHANGED <<env, request, url, outbound, calls>>
  /\ UNCHANGED deployVars

Next ==
  \/ \E r \in DOMAIN pc : HandleRequest(r)
  \/ \E r \in DOMAIN pc : FetchResolves(r)
  \/ \E r \in DOMAIN pc : FetchRejects(r)

Spec == Init /\ [][Next]_vars

(***************************************************************************)
(* Concurrent invocations: the runtime calls fetch(request, env) once per  *)
(* inbound request and interleaves the invocations at their await          *)
(***************************************************************************)
NumConcurrent == 2

ConcurrentInvocations == 1..NumConcurrent

ConcurrentRequests ==
  {[url |-> WorkerOrigin \o "/botT1/getMe", method |-> "OPTIONS",
    headers |-> <<>>, body |-> <<>>],
   [url |-> WorkerOrigin \o "/health", method |-> "GET",
    headers |-> <<>>, body |-> <<>>],
   [url |-> WorkerOrigin \o "/x", method |-> "GET",
    headers |-> <<>>, body |-> <<>>],
   [url |-> WorkerOrigin \o "/botT3/sendMessage", method |-> "POST",
    headers |-> << <<"Content-Type", "application/json">> >>,
    body |-> <<"{\"chat_id\":1}">>],
   [url |-> WorkerOrigin \o "/botT1/getMe?offset=1", method |-> "POST",
    headers |-> << <<"Content-Type", "application/json">>,
                   <<"Authorization", "Bearer s3cret">> >>,
    body |-> <<"{\"chat_id\":1}">>],
   [url |-> WorkerOrigin \o "/botT1/getMe", method |-> "GET",
    headers |-> <<>>, body |-> <<>>]}

InitConcurrent ==
  /\ env \in Envs
  /\ pc = [r \in ConcurrentInvocations |-> "idle"]
  /\ request = [r \in ConcurrentInvocations |-> <<>>]
  /\ url = [r \in ConcurrentInvocations |-> <<>>]
  /\ outbound = [r \in ConcurrentInvocations |-> <<>>]
  /\ settled = [r \in ConcurrentInvocations |-> <<>>]
  /\ calls = [r \in ConcurrentInvocations |-> 0]
  /\ outcome = [r \in ConcurrentInvocations |-> "none"]
  /\ response = [r \in ConcurrentInvocations |-> <<>>]
  /\ ScriptLoaded(BareProcessEnv)

HandleConcurrent(r) == Handle(r, ConcurrentRequests)

NextConcurrent ==
  \/ \E r \in DOMAIN pc : HandleConcurrent(r)
  \/ \E r \in DOMAIN pc : FetchResolves(r)
  \/ \E r \in DOMAIN pc : FetchRejects(r)

SpecConcurrent == InitConcurrent /\ [][NextConcurrent]_vars

(***************************************************************************)
(* The Railway startup script as a state machine: main() from the call at  *)
(* the end of the module, one action per stretch between two awaits        *)
(***************************************************************************)
ProcessEnvs ==
  [CLOUDFLARE_API_TOKEN : {<<>>, <<"">>, <<"cf-token">>},
   CLOUDFLARE_ACCOUNT_ID : {<<>>, <<"acct">>},
   WORKER_NAME : {<<>>, <<"tgp">>},
   ALLOWED_TOKENS : {<<>>, <<"T1,T2">>}]

DeployFetchErrors == {"fetch failed"}

Rejections == {[kind |-> "reject", message |-> m] : m \in DeployFetchErrors}

UploadReplies ==
  {[kind |-> "response", ok |-> TRUE, text |-> UploadOkText],
   [kind |-> "response", ok |-> FALSE, text |-> UploadDeniedText],
   [kind |-> "response", ok |-> FALSE, text |-> GatewayText]} \cup Rejections

SubdomainReplies ==
  {[kind |-> "response", ok |-> TRUE, text |-> SubdomainText],
   [kind |-> "response", ok |-> TRUE, text |-> NoSubdomainText],
   [kind |-> "response", ok |-> TRUE, text |-> GatewayText],
   [kind |-> "response", ok |-> FALSE, text |-> GatewayText]} \cup Rejections

EnableReplies ==
  {[kind |-> "response", ok |-> TRUE, text |-> UploadOkText],
   [kind |-> "response", ok |-> TRUE, text |-> GatewayText],
   [kind |-> "response", ok |-> FALSE, text |-> UploadDeniedText]} \cup Rejections

InitDeploy ==
  /\ env = DeployBindings(<<>>)
  /\ pc = [r \in SingleInvocation |-> "idle"]
  /\ request = [r \in SingleInvocation |-> <<>>]
  /\ url = [r \in SingleInvocation |-> <<>>]
  /\ outbound = [r \in SingleInvocation |-> <<>>]
  /\ settled = [r \in SingleInvocation |-> <<>>]
  /\ calls = [r \in SingleInvocation |-> 0]
  /\ outcome = [r \in SingleInvocation |-> "none"]
  /\ response = [r \in SingleInvocation |-> <<>>]
  /\ \E pe \in ProcessEnvs : ScriptLoaded(pe)

\* main(): deployWorker returned workerUrl
MainSucceeds(workerUrl) ==
  /\ deploymentStatus' = [status |-> "success", workerUrl |-> <<workerUrl>>,
                          error |-> <<>>, timestamp |-> deploymentStatus.timestamp + 1]
  /\ mainPc' = "finished"

\* main(): the catch block, for an error with the given message
MainCatches(message) ==
  /\ deploymentStatus' = [status |-> "error", workerUrl |-> <<>>,
                          error |-> <<message>>, timestamp |-> deploymentStatus.timestamp + 1]
  /\ mainPc' = "finished"

\* main(): startStatusServer() creates the server and calls listen
StartStatusServer ==
  /\ mainPc = "main"
  /\ mainPc' = "deploy"
  /\ server' = "starting"
  /\ UNCHANGED <<processEnv, deploymentStatus, upload, subdomain, page>>
  /\ UNCHANGED workerVars

\* the listen callback: the server accepts connections from now on
ServerListening ==
  /\ server = "starting"
  /\ server' = "listening"
  /\ UNCHANGED <<processEnv, mainPc, deploymentStatus, upload, subdomain, page>>
  /\ UNCHANGED workerVars

\* the request handler of the status server
StatusRequest ==
  /\ server = "listening"
  /\ page' = <<StatusPage(deploymentStatus)>>
  /\ UNCHANGED <<processEnv, mainPc, server, deploymentStatus, upload, subdomain>>
  /\ UNCHANGED workerVars

\* deployWorker() up to the await on the upload fetch
DeployWorkerStart ==
  /\ mainPc = "deploy"
  /\ IF CredentialsMissing(processEnv)
     THEN /\ MainCatches(MissingCredentialsMessage)
          /\ UNCHANGED upload
     ELSE /\ mainPc' = "upload"
          /\ upload' = <<[name     |-> WorkerName(processEnv),
                          bindings |-> DeployBindings(processEnv.ALLOWED_TOKENS),
                          reply    |-> <<>>]>>
          /\ UNCHANGED deploymentStatus
  /\ UNCHANGED <<processEnv, server, subdomain, page>>
  /\ UNCHANGED workerVars

\* the upload fetch settles; safeJsonParse and the success test
UploadSettles ==
  /\ mainPc = "upload"
  /\ \E reply \in UploadReplies :
       /\ upload' = <<[upload[1] EXCEPT !.reply = <<reply>>]>>
       /\ IF reply.kind = "reject" THEN MainCatches(reply.message)
          ELSE \E parsed \in {safeJsonParse(reply.text, "worker upload")} :
                 IF parsed.threw THEN MainCatches(parsed.message)
                 ELSE IF UploadFailed(parsed.value)
                 THEN MainCatches("Deployment failed: " \o parsed.value.errors)
                 ELSE /\ mainPc' = "subdomain"
                      /\ UNCHANGED deploymentStatus
  /\ UNCHANGED <<processEnv, server, subdomain, page>>
  /\ UNCHANGED workerVars

\* the subdomain fetch settles
SubdomainSettles ==
  /\ mainPc = "subdomain"
  /\ \E reply \in SubdomainReplies :
       IF reply.kind = "reject"
       THEN MainCatches(reply.message) /\ UNCHANGED subdomain
       ELSE IF ~reply.ok
       THEN mainPc' = "enable" /\ UNCHANGED <<deploymentStatus, subdomain>>
       ELSE \E parsed \in {safeJsonParse(reply.text, "subdomain check")} :
              IF parsed.threw
              THEN MainCatches(parsed.message) /\ UNCHANGED subdomain
              ELSE /\ subdomain' = parsed.value.subdomain
                   /\ mainPc' = "enable"
                   /\ UNCHANGED deploymentStatus
  /\ UNCHANGED <<processEnv, server, upload, page>>
  /\ UNCHANGED workerVars

\* the enable-route fetch settles; with a subdomain in hand deployWorker returns
EnableSettles ==
  /\ mainPc = "enable"
  /\ \E reply \in EnableReplies :
       IF reply.kind = "reject" THEN MainCatches(reply.message)
       ELSE IF reply.ok /\ safeJsonParse(reply.text, "enable subdomain").threw
       THEN MainCatches(safeJsonParse(reply.text, "enable subdomain").message)
       ELSE IF Truthy(subdomain)
       THEN MainSucceeds(WorkerUrl(processEnv, subdomain))
       ELSE mainPc' = "retry" /\ UNCHANGED deploymentStatus
  /\ UNCHANGED <<processEnv, server, upload, subdomain, page>>
  /\ UNCHANGED workerVars

\* the second subdomain fetch settles and deployWorker returns
RetrySettles ==
  /\ mainPc = "retry"
  /\ \E reply \in SubdomainReplies :
       IF reply.kind = "reject"
       THEN MainCatches(reply.message) /\ UNCHANGED subdomain
       ELSE IF ~reply.ok
       THEN MainSucceeds(WorkerUrl(processEnv, subdomain)) /\ UNCHANGED subdomain
       ELSE \E parsed \in {safeJsonParse(reply.text, "subdomain retry")} :
              IF parsed.threw
              THEN MainCatches(parsed.message) /\ UNCHANGED subdomain
              ELSE /\ subdomain' = parsed.value.subdomain
                   /\ MainSucceeds(WorkerUrl(processEnv, parsed.value.subdomain))
  /\ UNCHANGED <<processEnv, server, upload, page>>
  /\ UNCHANGED workerVars

\* the steps of main(), each run by the event loop once its await settles
MainStep ==
  \/ StartStatusServer
  \/ DeployWorkerStart
  \/ UploadSettles
  \/ SubdomainSettles
  \/ EnableSettles
  \/ RetrySettles

NextDeploy ==
  \/ StartStatusServer
  \/ ServerListening
  \/ StatusRequest
  \/ DeployWorkerStart
  \/ UploadSettles
  \/ SubdomainSettles
  \/ EnableSettles
  \/ RetrySettles

\* every fetch of the script settles and its continuation then runs
SpecDeploy == InitDeploy /\ [][NextDeploy]_vars /\ WF_vars(MainStep)

\* the response handleRequest returns for request req under bindings e when
\* it runs with no other invocation: reply is how its fetch settled, <<>> if
\* it returned before the fetch
HandledAlone(e, req, reply) ==
  LET route == Route(e, req.method, NewURL(req.url).pathname)
  IN IF route # "dispatch" THEN EarlyResponse(route)
     ELSE IF reply[1].kind = "response" THEN Relay(reply[1].value).response
     ELSE Caught(reply[1].message).response

(***************************************************************************)
(* Vocabulary of the properties                                            *)
(***************************************************************************)
Arrived(r) == pc[r] # "idle"

Done(r) == pc[r] = "done"

Dispatched(r) == outbound[r] # <<>>

PathOf(r) == url[r][1].pathname

MethodOf(r) == request[r].method

StatusOf(r) == response[r][1].status

BodyOf(r) == response[r][1].body

TerminalOutcomes ==
  {"preflight", "health", "path-invalid", "forbidden", "upstream-error", "relay"}

StatusFits(r) ==
  /\ outcome[r] \in {"preflight", "health"} => StatusOf(r) = 200
  /\ outcome[r] = "path-invalid" => StatusOf(r) = 400
  /\ outcome[r] = "forbidden" => StatusOf(r) = 403
  /\ outcome[r] = "upstream-error" => StatusOf(r) = 502
  /\ outcome[r] = "relay" => /\ settled[r] # <<>>
                             /\ settled[r][1].kind = "response"
                             /\ StatusOf(r) = settled[r][1].value.status

\* the failures that can be raised inside the try block
FailureRaised(r) ==
  /\ settled[r] # <<>>
  /\ \/ settled[r][1].kind = "error"
     \/ /\ settled[r][1].kind = "response"
        /\ settled[r][1].value.status \notin 200..599

\* C1: every finished handler invocation has returned a response through
\* exactly one of the six terminal outcomes, with the status of that outcome,
\* and a failure raised inside the try block (fetch rejected, or the relayed
\* Response could not be constructed) ends in the 502 outcome, never in an
\* unhandled failure.
C1_EveryPathReturnsAResponse ==
  \A r \in DOMAIN pc :
    /\ Done(r) =>
         /\ outcome[r] \in TerminalOutcomes
         /\ response[r] # <<>>
         /\ StatusFits(r)
         /\ FailureRaised(r) => outcome[r] = "upstream-error"
    /\ ~Done(r) => outcome[r] = "none" /\ response[r] = <<>>

C1_Witness ==
  \E r \in DOMAIN pc :
    /\ Done(r)
    /\ settled[r] # <<>>
    /\ settled[r][1].kind = "response"
    /\ settled[r][1].value.status = 999
    /\ outcome[r] = "upstream-error"
    /\ StatusOf(r) = 502

\* the names filterHeaders lets through
ForwardableNames == {"content-type", "accept", "accept-language", "content-length"}

\* the value the inbound request carries under the lower-case name n: the
\* values of its header lines with that name, in order, joined by ", "
RECURSIVE InboundValue(_, _)
InboundValue(lines, n) ==
  IF lines = <<>> THEN <<>>
  ELSE LET rest == InboundValue(Tail(lines), n)
       IN IF ToLowerCase(lines[1][1]) # n THEN rest
          ELSE IF rest = <<>> THEN <<lines[1][2]>>
          ELSE <<lines[1][2] \o ", " \o rest[1]>>

InboundNames(lines) == {ToLowerCase(lines[i][1]) : i \in 1..Len(lines)}

\* C2: the headers of every request handed to the upstream are exactly the
\* inbound headers whose lower-case name is content-type, accept,
\* accept-language or content-length, each with its inbound value; no other
\* inbound header (authorization, x-foo) is forwarded.
C2_OnlyAllowedHeadersForwarded ==
  \A r \in DOMAIN pc :
    Dispatched(r) =>
      LET lines == request[r].headers
          sent  == outbound[r][1].headers
      IN /\ DOMAIN sent = InboundNames(lines) \cap ForwardableNames
         /\ \A n \in DOMAIN sent : <<sent[n]>> = InboundValue(lines, n)
         /\ "authorization" \notin DOMAIN sent
         /\ "x-foo" \notin DOMAIN sent

C2_Witness ==
  \E r \in DOMAIN pc :
    /\ Dispatched(r)
    /\ InboundNames(request[r].headers) = {"authorization", "content-type"}
    /\ DOMAIN outbound[r][1].headers = {"content-type"}
    /\ outbound[r][1].headers["content-type"] = "application/json"

\* what the configured text lists: its comma-separated entries, each trimmed
ConfiguredText == IF "ALLOWED_TOKENS" \in DOMAIN env THEN env["ALLOWED_TOKENS"] ELSE ""

ListedTokens ==
  LET entries == Split(ConfiguredText, ",")
  IN {Trim(entries[i]) : i \in 1..Len(entries)}

AllowlistSet == ConfiguredText # ""

\* the text between the "/bot" prefix and the next "/" (or the end of the path)
TokenSegment(path) ==
  LET slash == IndexOfFrom(path, "/", 5)
  IN SubSeq(path, 5, IF slash = 0 THEN Len(path) ELSE slash - 1)

\* C3: with ALLOWED_TOKENS configured, every request handed to the upstream
\* has a path that starts with "/bot" and whose token segment is one of the
\* listed tokens; "/bot" and "/bot/<method>" never reach the upstream.
C3_OnlyListedTokensReachUpstream ==
  \A r \in DOMAIN pc :
    (AllowlistSet /\ Dispatched(r)) =>
      /\ StartsWith(PathOf(r), "/bot")
      /\ TokenSegment(PathOf(r)) # ""
      /\ TokenSegment(PathOf(r)) \in ListedTokens

\* a path of the form /bot<token>/... with a non-empty token
HasTokenForm(path) ==
  /\ StartsWith(path, "/bot")
  /\ IndexOfFrom(path, "/", 5) > 5

ForbiddenBody == <<"{\"error\":\"Token not in allowlist\"}">>

Answered403(r) ==
  /\ Done(r)
  /\ StatusOf(r) = 403
  /\ BodyOf(r) = ForbiddenBody

\* C4: with a non-empty allowlist, a non-OPTIONS request for /bot<token>/...
\* is answered 403 with the body {"error":"Token not in allowlist"} exactly
\* when <token>, taken from the path as is, equals none of the trimmed
\* comma-separated entries (case-sensitive).
C4_ForbiddenExactlyWhenTokenUnlisted ==
  \A r \in DOMAIN pc :
    (AllowlistSet /\ Arrived(r) /\ MethodOf(r) # "OPTIONS" /\ HasTokenForm(PathOf(r))) =>
      (Answered403(r) <=> TokenSegment(PathOf(r)) \notin ListedTokens)

C4_Witness ==
  \E r \in DOMAIN pc :
    /\ ConfiguredText = "T1,T2"
    /\ Arrived(r)
    /\ MethodOf(r) = "POST"
    /\ PathOf(r) = "/botT3/sendMessage"
    /\ Answered403(r)

\* C5: with the allowlist binding absent or empty (which is what the deploy
\* scripts produce for an absent or empty ALLOWED_TOKENS setting) no request
\* is answered 403, and every non-OPTIONS request whose path starts with /bot
\* is handed to the upstream.
C5_NoAllowlistNoForbidden ==
  /\ \A st \in {<<>>, <<"">>} : "ALLOWED_TOKENS" \notin DOMAIN DeployBindings(st)
  /\ \A r \in DOMAIN pc :
       ~AllowlistSet =>
         /\ outcome[r] # "forbidden"
         /\ Done(r) => StatusOf(r) # 403
         /\ (Arrived(r) /\ MethodOf(r) # "OPTIONS" /\ StartsWith(PathOf(r), "/bot")) =>
              (Dispatched(r) /\ calls[r] = 1)

C5_Witness ==
  \E r \in DOMAIN pc :
    /\ "ALLOWED_TOKENS" \in DOMAIN env
    /\ env["ALLOWED_TOKENS"] = ""
    /\ Arrived(r)
    /\ MethodOf(r) = "GET"
    /\ PathOf(r) = "/botANY/sendMessage"
    /\ Dispatched(r)

CorsNames ==
  {"access-control-allow-origin", "access-control-allow-methods",
   "access-control-allow-headers", "access-control-max-age"}

CorsValue(n) ==
  CASE n = "access-control-allow-origin"  -> "*"
    [] n = "access-control-allow-methods" -> "GET, POST, PUT, DELETE, OPTIONS"
    [] n = "access-control-allow-headers" -> "Content-Type, Authorization"
    [] n = "access-control-max-age"       -> "86400"

CarriesCors(headers) ==
  \A n \in CorsNames : n \in DOMAIN headers /\ headers[n] = CorsValue(n)

\* C6: a request with method OPTIONS, whatever its path and whatever the
\* allowlist, is answered at once with no body and with the four CORS headers
\* and no other header, and nothing is sent to the upstream.
C6_PreflightEmptyCorsOnly ==
  \A r \in DOMAIN pc :
    (Arrived(r) /\ MethodOf(r) = "OPTIONS") =>
      /\ Done(r)
      /\ BodyOf(r) = <<>>
      /\ DOMAIN response[r][1].headers = CorsNames
      /\ CarriesCors(response[r][1].headers)
      /\ ~Dispatched(r)
      /\ calls[r] = 0

C6_Witness ==
  \E r \in DOMAIN pc :
    /\ AllowlistSet
    /\ Arrived(r)
    /\ MethodOf(r) = "OPTIONS"
    /\ PathOf(r) = "/health"
    /\ Done(r)
    /\ BodyOf(r) = <<>>

HealthBody ==
  <<"{\"status\":\"ok\",\"service\":\"telegram-api-proxy\",\"usage\":\"Replace api.telegram.org with this worker URL\"}">>

AnsweredHealth(r) ==
  /\ Done(r)
  /\ StatusOf(r) = 200
  /\ BodyOf(r) = HealthBody

\* C7 as stated: every request to / or /health, whatever its method, is
\* answered 200 with the fixed health JSON.
C7_HealthForEveryMethod ==
  \A r \in DOMAIN pc :
    (Arrived(r) /\ PathOf(r) \in {"/", "/health"}) => AnsweredHealth(r)

\* C7 amended: every request to / or /health whose method is not OPTIONS is
\* answered 200 with the fixed health JSON.
C7_HealthForNonPreflight ==
  \A r \in DOMAIN pc :
    (Arrived(r) /\ PathOf(r) \in {"/", "/health"} /\ MethodOf(r) # "OPTIONS") =>
      AnsweredHealth(r)

C7_Witness ==
  \E r \in DOMAIN pc :
    /\ Arrived(r)
    /\ PathOf(r) = "/health"
    /\ MethodOf(r) = "POST"
    /\ AnsweredHealth(r)

\* /bot<token>/<method>: a non-empty token, a "/", a non-empty method name
HasProxyShape(path) ==
  /\ HasTokenForm(path)
  /\ IndexOfFrom(path, "/", 5) < Len(path)

RecognizedPath(path) == path \in {"/", "/health"} \/ HasProxyShape(path)

Answered400(r) == Done(r) /\ StatusOf(r) = 400

C9_CorsOnEveryResponse ==
  \A r \in DOMAIN pc :
    response[r] # <<>> => CarriesCors(response[r][1].headers)

C9_Witness ==
  \E r \in DOMAIN pc :
    /\ Done(r)
    /\ outcome[r] = "relay"
    /\ \E i \in 1..Len(settled[r][1].value.headers) :
         /\ ToLowerCase(settled[r][1].value.headers[i][1]) = "access-control-allow-origin"
         /\ settled[r][1].value.headers[i][2] # "*"
    /\ response[r][1].headers["access-control-allow-origin"] = "*"

(***************************************************************************)
(* Reading a JSON string back: t is the text between the quotes            *)
(***************************************************************************)
\* position i of t holds a backslash that starts an escape sequence
EscapeStarts(t, i) ==
  /\ CharAt(t, i) = "\\"
  /\ LET others == {j \in 1..(i - 1) : CharAt(t, j) # "\\"}
         before == IF others = {} THEN 0 ELSE CHOOSE j \in others : \A k \in others : j >= k
     IN (i - before - 1) % 2 = 0

Escaped(t, i) == i > 1 /\ EscapeStarts(t, i - 1)

UnescapeChar(c) == IF c = "n" THEN "\n" ELSE c

\* t is the content of one JSON string: every quote in it is escaped and it
\* does not end in the middle of an escape sequence
WellFormedContent(t) ==
  /\ \A i \in 1..Len(t) : CharAt(t, i) = "\"" => Escaped(t, i)
  /\ Len(t) > 0 => ~EscapeStarts(t, Len(t))

RECURSIVE DecodeRange(_, _, _)
DecodeRange(t, lo, hi) ==
  IF lo > hi THEN ""
  ELSE IF lo = hi
       THEN (IF EscapeStarts(t, lo) THEN ""
             ELSE IF Escaped(t, lo) THEN UnescapeChar(CharAt(t, lo))
             ELSE CharAt(t, lo))
  ELSE DecodeRange(t, lo, (lo + hi) \div 2) \o DecodeRange(t, (lo + hi) \div 2 + 1, hi)

JSONUnescape(t) == DecodeRange(t, 1, Len(t))

ErrorMemberText == "{\"error\":\"Failed to proxy request to Telegram\",\"message\":\""

\* text is the JSON object {"error": <the fixed label>, "message": <message>}
IsProxyErrorJSON(text, message) ==
  /\ StartsWith(text, ErrorMemberText)
  /\ Len(text) >= Len(ErrorMemberText) + 2
  /\ SubSeq(text, Len(text) - 1, Len(text)) = "\"}"
  /\ LET content == SubSeq(text, Len(ErrorMemberText) + 1, Len(text) - 2)
     IN /\ WellFormedContent(content)
        /\ JSONUnescape(content) = message

FetchFailed(r) == settled[r] # <<>> /\ settled[r][1].kind = "error"

\* C10: when the upstream call of a dispatched request fails, the response
\* has status 502 and its body is the JSON object whose error member is
\* "Failed to proxy request to Telegram" and whose message member is the
\* failure's own message.
C10_FetchFailureGives502WithMessage ==
  \A r \in DOMAIN pc :
    FetchFailed(r) =>
      /\ Done(r)
      /\ StatusOf(r) = 502
      /\ BodyOf(r) # <<>>
      /\ IsProxyErrorJSON(BodyOf(r)[1], settled[r][1].message)

C10_Witness ==
  \E r \in DOMAIN pc :
    /\ FetchFailed(r)
    /\ settled[r][1].message = "connect \"api.telegram.org\" failed"
    /\ StatusOf(r) = 502
    /\ BodyOf(r) =
         <<"{\"error\":\"Failed to proxy request to Telegram\",\"message\":\"connect \\\"api.telegram.org\\\" failed\"}">>

UpstreamReplied(r) == settled[r] # <<>> /\ settled[r][1].kind = "response"

UpstreamReply(r) == settled[r][1].value

\* the final response is the upstream's: status, status text, body, and
\* every upstream header outside the four CORS names with its value
RelaysUpstream(r) ==
  LET up    == UpstreamReply(r)
      final == response[r][1]
  IN /\ final.status = up.status
     /\ final.statusText = up.statusText
     /\ final.body = up.body
     /\ DOMAIN final.headers = InboundNames(up.headers) \cup CorsNames
     /\ \A n \in InboundNames(up.headers) \ CorsNames :
          <<final.headers[n]>> = InboundValue(up.headers, n)

\* C11 as stated: whatever status code the upstream answers with, the final
\* response has the same status code, status text and body and every
\* upstream header outside the four CORS names, unchanged.
C11_RelayWhateverStatus ==
  \A r \in DOMAIN pc :
    UpstreamReplied(r) => (Done(r) /\ response[r] # <<>> /\ RelaysUpstream(r))

\* C11 amended: when the upstream answers with a status code from 200 to 599,
\* the final response has the same status code, status text and body and
\* every upstream header outside the four CORS names, unchanged; for any other
\* status code the final response is the 502 error response.
C11_RelayForConstructibleStatus ==
  \A r \in DOMAIN pc :
    UpstreamReplied(r) =>
      /\ Done(r)
      /\ response[r] # <<>>
      /\ UpstreamReply(r).status \in 200..599 => RelaysUpstream(r)
      /\ UpstreamReply(r).status \notin 200..599 =>
           (StatusOf(r) = 502 /\ outcome[r] = "upstream-error")

C11_Witness ==
  \E r \in DOMAIN pc :
    /\ UpstreamReplied(r)
    /\ PathOf(r) = "/botT1/getMe"
    /\ UpstreamReply(r).status = 200
    /\ UpstreamReply(r).body = <<"{\"ok\":true}">>
    /\ StatusOf(r) = 200
    /\ BodyOf(r) = <<"{\"ok\":true}">>
    /\ response[r][1].statusText = "OK"
    /\ response[r][1].headers["content-type"] = "application/json"
    /\ CarriesCors(response[r][1].headers)

\* the part of an absolute URL after its origin, up to the "?" (or the end)
PathPart(u, origin) ==
  LET q == IndexOfFrom(u, "?", Len(origin) + 1)
  IN SubSeq(u, Len(origin) + 1, IF q = 0 THEN Len(u) ELSE q - 1)

\* the query of a URL: the text after the first "?", empty when there is none
QueryPart(u, origin) ==
  LET q == IndexOfFrom(u, "?", Len(origin) + 1)
  IN IF q = 0 THEN "" ELSE SubSeq(u, q + 1, Len(u))

PayloadFreeMethods == {"GET", "HEAD"}

\* C12: the request handed to the upstream targets the fixed upstream origin
\* with the inbound path and the inbound query, has the inbound method, and
\* carries the inbound body for every method but GET and HEAD, for which it
\* carries none.
C12_OutboundDerivedFromInbound ==
  \A r \in DOMAIN pc :
    Dispatched(r) =>
      LET in  == request[r]
          out == outbound[r][1]
      IN /\ StartsWith(out.url, "https://api.telegram.org/")
         /\ PathPart(out.url, "https://api.telegram.org") = PathPart(in.url, WorkerOrigin)
         /\ QueryPart(out.url, "https://api.telegram.org") = QueryPart(in.url, WorkerOrigin)
         /\ out.method = in.method
         /\ out.body = IF in.method \in PayloadFreeMethods THEN <<>> ELSE in.body

C12_Witness ==
  \E r \in DOMAIN pc :
    /\ Dispatched(r)
    /\ request[r].url = WorkerOrigin \o "/botT1/getMe?offset=1"
    /\ request[r].method = "POST"
    /\ request[r].body # <<>>
    /\ outbound[r][1].url = "https://api.telegram.org/botT1/getMe?offset=1"
    /\ outbound[r][1].method = "POST"
    /\ outbound[r][1].body = request[r].body

PathInvalidBody ==
  <<"{\"error\":\"Invalid path. Expected /bot<token>/<method>\",\"example\":\"/botYOUR_TOKEN/sendMessage\"}">>

HealthPaths == {"/", "/health"}

\* C14: the checks decide in the order preflight, health probe, path shape,
\* allowlist, dispatch and the first that matches wins: an OPTIONS request
\* gets the preflight response whatever its path; otherwise a request to / or
\* /health gets the health response and is never answered 403; otherwise a
\* request whose path does not start with /bot is answered 400 with the
\* path-invalid body and never 403, whatever the allowlist; and a request
\* answered 403 has passed the three earlier checks and is not dispatched.
C14_FirstMatchingCheckDecides ==
  \A r \in DOMAIN pc :
    Arrived(r) =>
      /\ MethodOf(r) = "OPTIONS" => outcome[r] = "preflight"
      /\ (MethodOf(r) # "OPTIONS" /\ PathOf(r) \in HealthPaths) =>
           (outcome[r] = "health" /\ AnsweredHealth(r) /\ ~Answered403(r))
      /\ (MethodOf(r) # "OPTIONS" /\ PathOf(r) \notin HealthPaths
            /\ ~StartsWith(PathOf(r), "/bot")) =>
           /\ outcome[r] = "path-invalid"
           /\ Answered400(r)
           /\ BodyOf(r) = PathInvalidBody
           /\ ~Dispatched(r)
      /\ outcome[r] = "forbidden" =>
           /\ MethodOf(r) # "OPTIONS"
           /\ PathOf(r) \notin HealthPaths
           /\ StartsWith(PathOf(r), "/bot")
           /\ ~Dispatched(r)
      /\ Dispatched(r) =>
           /\ MethodOf(r) # "OPTIONS"
           /\ PathOf(r) \notin HealthPaths
           /\ StartsWith(PathOf(r), "/bot")
           /\ (Done(r) => outcome[r] \in {"relay", "upstream-error"})

C14_Witness ==
  \E r \in DOMAIN pc :
    /\ ConfiguredText = "T1,T2"
    /\ Arrived(r)
    /\ MethodOf(r) = "POST"
    /\ PathOf(r) = "/x"
    /\ Answered400(r)
    /\ BodyOf(r) = PathInvalidBody

EarlyOutcomes == {"preflight", "health", "path-invalid", "forbidden"}

InvocationState(q) ==
  <<pc[q], request[q], url[q], outbound[q], settled[q], calls[q], outcome[q], response[q]>>

SameInput(r, q) == request[r] = request[q] /\ settled[r] = settled[q]

ResponseIsOwn ==
  \A r \in DOMAIN pc :
    Done(r) =>
      /\ response[r] = <<HandledAlone(env, request[r], settled[r])>>
      /\ \A q \in DOMAIN pc :
           (Done(q) /\ SameInput(r, q)) =>
             (response[q] = response[r] /\ outcome[q] = outcome[r])

\* a step belongs to one invocation and leaves the others and env as they are
StepIsLocal ==
  /\ env' = env
  /\ \E r \in DOMAIN pc :
       \A q \in DOMAIN pc \ {r} : InvocationState(q)' = InvocationState(q)

\* C13: under every interleaving of concurrent invocations, a finished
\* invocation's response is the one the same request gets when handled alone
\* with the same bindings and the same upstream reply; two invocations with the
\* same request and the same upstream reply have the same response; and every
\* handler step changes one invocation only and never the bindings.
C13_ConcurrentRequestsIndependent == [](ResponseIsOwn) /\ [][StepIsLocal]_vars

C13_Witness ==
  \E r, q \in DOMAIN pc :
    /\ r # q
    /\ Done(r) /\ Done(q)
    /\ request[r].url = WorkerOrigin \o "/botT1/getMe"
    /\ request[r].method = "GET"
    /\ SameInput(r, q)
    /\ UpstreamReplied(r)
    /\ StatusOf(r) = 200
    /\ response[q] = response[r]

UploadReportedSuccess ==
  /\ upload # <<>>
  /\ upload[1].reply # <<>>
  /\ upload[1].reply[1].kind = "response"
  /\ upload[1].reply[1].text = "{\"success\":true,\"errors\":[]}"

DeployAttempted == mainPc \notin {"main", "deploy"}

StatusWellFormed ==
  /\ deploymentStatus.status \in {"pending", "success", "error"}
  /\ mainPc # "finished" <=> deploymentStatus.status = "pending"
  /\ deploymentStatus.status = "pending" =>
       (deploymentStatus.workerUrl = <<>> /\ deploymentStatus.error = <<>>)
  /\ deploymentStatus.status = "success" =>
       (deploymentStatus.workerUrl # <<>> /\ deploymentStatus.error = <<>>)
  /\ deploymentStatus.status = "error" =>
       (deploymentStatus.workerUrl = <<>> /\ deploymentStatus.error # <<>>)

ServerBeforeDeploy == (DeployAttempted \/ upload # <<>>) => server # "none"

SuccessAfterUpload == deploymentStatus.status = "success" => UploadReportedSuccess

\* the URL of the deployed worker on workers.dev
IsWorkersDevUrl(text) ==
  /\ StartsWith(text, "https://")
  /\ Len(text) > Len("https://") + Len(".workers.dev")
  /\ SubSeq(text, Len(text) - Len(".workers.dev") + 1, Len(text)) = ".workers.dev"

SuccessPageServed == page # <<>> /\ page[1].status = "SUCCESS"

\* once the status has left 'pending' it is never written again
StatusChangesOnce ==
  /\ deploymentStatus.status # "pending" => deploymentStatus' = deploymentStatus
  /\ deploymentStatus' # deploymentStatus =>
       /\ deploymentStatus.status = "pending"
       /\ deploymentStatus'.status \in {"success", "error"}

====
